---------------------------- MODULE Spec2Model ----------------------------
(***************************************************************************)
(* A model of mfinance's terminal user interface (src/src/tui.rs): the     *)
(* App state, the event loop of run_tui_loop with one action per key       *)
(* event, the report view model built from the ledger files, and the       *)
(* ledger files themselves.                                                *)
(*                                                                         *)
(* Text is a sequence of one-character strings.  A Decimal is a record     *)
(* [m |-> mantissa, s |-> scale] standing for m / 10^s, kept with no       *)
(* trailing zero in the fraction, so that record equality is the numeric   *)
(* equality of rust_decimal.                                               *)
(***************************************************************************)
EXTENDS Integers, Sequences, FiniteSets, TLC

(***************************************************************************)
(* Bounds of the exploration.                                              *)
(***************************************************************************)
\* Buffer-editing keystrokes (characters and backspaces) explored in one run.
MaxKeys == 1
\* Confirm presses that reach the save step explored in one run.
MaxSaves == 1

MaxCommands == 2

(***************************************************************************)
(* Text                                                                    *)
(***************************************************************************)
Digits == <<"0", "1", "2", "3", "4", "5", "6", "7", "8", "9">>

IsDigit(c) == \E i \in 1..10 : Digits[i] = c

DigitVal(c) == (CHOOSE i \in 1..10 : Digits[i] = c) - 1

RECURSIVE NatToText(_)
NatToText(n) ==
    IF n < 10 THEN <<Digits[n + 1]>>
    ELSE NatToText(n \div 10) \o <<Digits[(n % 10) + 1]>>

RECURSIVE ZeroPad(_, _)
ZeroPad(t, width) == IF Len(t) >= width THEN t ELSE ZeroPad(<<"0">> \o t, width)

RECURSIVE Pow10(_)
Pow10(n) == IF n = 0 THEN 1 ELSE 10 * Pow10(n - 1)

Abs(n) == IF n < 0 THEN -n ELSE n

Max(a, b) == IF a >= b THEN a ELSE b

\* Number of leading ASCII digits of t, at most max of them (chrono's scan::number).
RECURSIVE DigitRun(_, _)
DigitRun(t, max) ==
    IF max = 0 \/ t = <<>> \/ ~IsDigit(Head(t)) THEN 0
    ELSE 1 + DigitRun(Tail(t), max - 1)

RECURSIVE TextToNat(_)
TextToNat(t) ==
    IF t = <<>> THEN 0
    ELSE 10 * TextToNat(SubSeq(t, 1, Len(t) - 1)) + DigitVal(t[Len(t)])

Drop(t, n) == SubSeq(t, n + 1, Len(t))

Take(t, n) == SubSeq(t, 1, n)

\* Lexicographic order of strings (str::cmp; the alphabet is ASCII).
CharRank(c) ==
    CASE c = " " -> 32
      [] c = "-" -> 45
      [] c = "." -> 46
      [] IsDigit(c) -> 48 + DigitVal(c)
      [] OTHER -> 120

RECURSIVE TextLess(_, _)
TextLess(a, b) ==
    IF b = <<>> THEN FALSE
    ELSE IF a = <<>> THEN TRUE
    ELSE IF Head(a) # Head(b) THEN CharRank(Head(a)) < CharRank(Head(b))
    ELSE TextLess(Tail(a), Tail(b))

(***************************************************************************)
(* Decimal (rust_decimal)                                                  *)
(***************************************************************************)
RECURSIVE Norm(_, _)
Norm(m, s) ==
    IF s > 0 /\ m % 10 = 0 THEN Norm(m \div 10, s - 1) ELSE [m |-> m, s |-> s]

DecZero == [m |-> 0, s |-> 0]

DecAdd(a, b) ==
    LET s == Max(a.s, b.s)
    IN  Norm(a.m * Pow10(s - a.s) + b.m * Pow10(s - b.s), s)

RECURSIVE SumAmounts(_)
SumAmounts(es) ==
    IF es = <<>> THEN DecZero ELSE DecAdd(SumAmounts(Take(es, Len(es) - 1)), es[Len(es)].amount)

\* Decimal::to_string.
DecToText(d) ==
    LET a == Abs(d.m)
        int == NatToText(a \div Pow10(d.s))
        frac == IF d.s = 0 THEN <<>>
                ELSE <<".">> \o ZeroPad(NatToText(a % Pow10(d.s)), d.s)
    IN  (IF d.m < 0 THEN <<"-">> ELSE <<>>) \o int \o frac

\* Decimal::from_str: an optional leading '-', digits with at most one '.',
\* at least one digit.
ParseDecimal(t) ==
    LET neg == t # <<>> /\ Head(t) = "-"
        body == IF neg THEN Tail(t) ELSE t
        points == {i \in 1..Len(body) : body[i] = "."}
        ok == /\ \A i \in 1..Len(body) : IsDigit(body[i]) \/ body[i] = "."
              /\ Cardinality(points) <= 1
              /\ \E i \in 1..Len(body) : IsDigit(body[i])
        p == IF points = {} THEN Len(body) + 1 ELSE CHOOSE i \in points : TRUE
        scale == IF points = {} THEN 0 ELSE Len(body) - p
        mant == TextToNat(Take(body, p - 1) \o Drop(body, p))
    IN  IF ok THEN [ok |-> TRUE, value |-> Norm(IF neg THEN -mant ELSE mant, scale)]
        ELSE [ok |-> FALSE, value |-> DecZero]

(***************************************************************************)
(* Number formatting (src/src/number_formatter.rs)                         *)
(***************************************************************************)
\* Decimal::round_dp(2): the amount in hundredths, midpoints to the even
\* neighbour.
RoundDp2(d) ==
    IF d.s <= 2 THEN d.m * Pow10(2 - d.s)
    ELSE LET unit == Pow10(d.s - 2)
             q == Abs(d.m) \div unit
             r == Abs(d.m) % unit
             up == 2 * r > unit \/ (2 * r = unit /\ q % 2 = 1)
             a == IF up THEN q + 1 ELSE q
         IN  IF d.m < 0 THEN -a ELSE a

\* NumberFormatter::format with the default FormatOptions: two fraction
\* digits, a separator before every group of three integer digits.
Format(d) ==
    LET cents == RoundDp2(d)
        negative == d.m < 0
        decimal_string == (IF negative THEN <<"-">> ELSE <<>>)
                          \o NatToText(Abs(cents) \div 100)
                          \o <<".">> \o ZeroPad(NatToText(Abs(cents) % 100), 2)
        sign_offset == IF negative THEN 1 ELSE 0
        len_till_dot == Len(decimal_string) - 1 - 2
        first == LET g == ((len_till_dot - sign_offset) % 3) + sign_offset
                 IN  IF g = sign_offset THEN 3 + sign_offset ELSE g
        \* byte index i (from 0) receives a separator in front of it
        sep(i) == i >= first /\ (i - first) % 3 = 0 /\ i < len_till_dot
        piece(i) == IF sep(i - 1) THEN <<" ", decimal_string[i]>> ELSE <<decimal_string[i]>>
        F[i \in 0..Len(decimal_string)] == IF i = 0 THEN <<>> ELSE F[i - 1] \o piece(i)
    IN  F[Len(decimal_string)]

(***************************************************************************)
(* Calendar dates (chrono::NaiveDate)                                      *)
(***************************************************************************)
IsLeap(y) == (y % 4 = 0 /\ y % 100 # 0) \/ y % 400 = 0

DaysInMonth(y, m) ==
    IF m = 2 THEN (IF IsLeap(y) THEN 29 ELSE 28)
    ELSE IF m \in {4, 6, 9, 11} THEN 30 ELSE 31

NoDate == [ok |-> FALSE, y |-> 0, m |-> 0, d |-> 0]

\* NaiveDate::parse_from_str(text, "%Y-%m-%d") and str::parse::<NaiveDate>:
\* a year of 1 to 4 digits (any number of digits after a '-' sign), '-', a
\* month of 1 or 2 digits, '-', a day of 1 or 2 digits, nothing after it,
\* and the three numbers name a day of the calendar.
ParseDate(t) ==
    LET neg == t # <<>> /\ Head(t) = "-"
        t1 == IF neg THEN Tail(t) ELSE t
        ny == DigitRun(t1, IF neg THEN Len(t1) ELSE 4)
        t2 == Drop(t1, ny)
        d1 == t2 # <<>> /\ Head(t2) = "-"
        t3 == IF d1 THEN Tail(t2) ELSE <<>>
        nm == DigitRun(t3, 2)
        t4 == Drop(t3, nm)
        d2 == t4 # <<>> /\ Head(t4) = "-"
        t5 == IF d2 THEN Tail(t4) ELSE <<>>
        nd == DigitRun(t5, 2)
        y == (IF neg THEN -1 ELSE 1) * TextToNat(Take(t1, ny))
        m == TextToNat(Take(t3, nm))
        d == TextToNat(Take(t5, nd))
    IN  IF /\ ny >= 1 /\ d1 /\ nm >= 1 /\ d2 /\ nd >= 1
           /\ Len(t5) = nd
           /\ m \in 1..12
           /\ d >= 1 /\ d <= DaysInMonth(y, m)
        THEN [ok |-> TRUE, y |-> y, m |-> m, d |-> d]
        ELSE NoDate

\* i32::to_string of the year.
YearText(y) == (IF y < 0 THEN <<"-">> ELSE <<>>) \o NatToText(Abs(y))

\* NaiveDate::to_string: YYYY-MM-DD, the year zero-padded to four digits
\* (with a sign and five places outside 0..9999).
DateToText(date) ==
    (IF date.y < 0 THEN <<"-">> \o ZeroPad(NatToText(-date.y), 4)
     ELSE ZeroPad(NatToText(date.y), 4))
    \o <<"-">> \o ZeroPad(NatToText(date.m), 2)
    \o <<"-">> \o ZeroPad(NatToText(date.d), 2)

(***************************************************************************)
(* Ledger files (src/src/lib.rs)                                           *)
(***************************************************************************)
\* A file is missing, or a sequence of lines.  A line is the header
\* "date;amount", a record of a date text and a decimal amount, or a record
\* whose amount field is no decimal.
HeaderLine == [kind |-> "header"]

Row(date, amount) == [kind |-> "row", date |-> date, amount |-> amount]

BadRow == [kind |-> "bad"]

Missing == [exists |-> FALSE, lines |-> <<>>]

File(lines) == [exists |-> TRUE, lines |-> lines]

Entry(date, amount) == [date |-> date, amount |-> amount]

\* entries_from_file: the first line is taken as the line that names the
\* columns, every further line must deserialize into an Entry by these names
\* (the date any string, the amount a Decimal).
entries_from_file(file) ==
    IF ~file.exists THEN [ok |-> FALSE, entries |-> <<>>]
    ELSE IF file.lines = <<>> THEN [ok |-> TRUE, entries |-> <<>>]
    ELSE LET records == Tail(file.lines)
         IN  IF Head(file.lines).kind = "header"
                /\ \A i \in 1..Len(records) : records[i].kind = "row"
             THEN [ok |-> TRUE,
                   entries |-> [i \in 1..Len(records) |->
                                  Entry(records[i].date, records[i].amount)]]
             ELSE [ok |-> records = <<>>, entries |-> <<>>]

(***************************************************************************)
(* The report view model (src/src/tui.rs)                                  *)
(***************************************************************************)
ReportViewModel_default == [title |-> "", total |-> <<>>, year_reports |-> <<>>]

\* The keys of a BTreeMap<String, _> in iteration order.
RECURSIVE SortedKeys(_)
SortedKeys(keys) ==
    IF keys = {} THEN <<>>
    ELSE LET least == CHOOSE k \in keys : \A o \in keys : o = k \/ TextLess(k, o)
         IN  <<least>> \o SortedKeys(keys \ {least})

YearKey(entry) == YearText(ParseDate(entry.date).y)

\* A fault seeded in ReportViewModel::new: the rows are collected from the
\* last entry to the first.
YearReportViewModel_rows_reversed(year, entries) ==
    [title |-> year,
     subtotal_amount |-> Format(SumAmounts(entries)),
     lines |-> [i \in 1..Len(entries) |->
                  <<entries[Len(entries) + 1 - i].date,
                    Format(entries[Len(entries) + 1 - i].amount)>>],
     entries |-> entries]

YearReportViewModel(year, entries) ==
    [title |-> year,
     subtotal_amount |-> Format(SumAmounts(entries)),
     lines |-> [i \in 1..Len(entries) |-> <<entries[i].date, Format(entries[i].amount)>>],
     entries |-> entries]

\* a is a day before b.
DateBefore(a, b) ==
    \/ a.y < b.y
    \/ a.y = b.y /\ a.m < b.m
    \/ a.y = b.y /\ a.m = b.m /\ a.d < b.d

\* The entries in the order of their dates, those of one date in the order
\* they had.
RECURSIVE SortByDate(_)
SortByDate(entries) ==
    IF entries = <<>> THEN <<>>
    ELSE LET first == CHOOSE i \in 1..Len(entries) :
                        \A j \in 1..Len(entries) :
                          /\ ~DateBefore(ParseDate(entries[j].date), ParseDate(entries[i].date))
                          /\ j < i => DateBefore(ParseDate(entries[i].date),
                                                 ParseDate(entries[j].date))
         IN  <<entries[first]>>
             \o SortByDate(Take(entries, first - 1) \o Drop(entries, first))

\* A fault seeded in ReportViewModel::new: the entries of a year are sorted
\* by date.
YearReports_by_date(entries, years) ==
    [k \in 1..Len(years) |->
       YearReportViewModel(years[k],
                           SortByDate(SelectSeq(entries, LAMBDA e : YearKey(e) = years[k])))]

\* years_map.into_iter().map(..).collect(): one YearReportViewModel per key,
\* in key order, with the entries of that year in the order of the file.
YearReports(entries, years) ==
    [k \in 1..Len(years) |->
       YearReportViewModel(years[k], SelectSeq(entries, LAMBDA e : YearKey(e) = years[k]))]

\* A fault seeded in ReportViewModel::new: the total is summed over the
\* entries of the first year only.
ReportOf_first_year_total(name, read) ==
    IF ~read.ok \/ \E i \in 1..Len(read.entries) : ~ParseDate(read.entries[i].date).ok
    THEN [ok |-> FALSE, report |-> ReportViewModel_default]
    ELSE LET years == YearReports(read.entries,
                        SortedKeys({YearKey(read.entries[i]) : i \in 1..Len(read.entries)}))
         IN  [ok |-> TRUE,
              report |->
                [title |-> name,
                 total |-> Format(SumAmounts(IF years = <<>> THEN <<>> ELSE years[1].entries)),
                 year_reports |-> years]]

\* ReportViewModel::new once the file is read.
ReportOf(name, read) ==
    IF ~read.ok \/ \E i \in 1..Len(read.entries) : ~ParseDate(read.entries[i].date).ok
    THEN [ok |-> FALSE, report |-> ReportViewModel_default]
    ELSE [ok |-> TRUE,
          report |->
            [title |-> name,
             total |-> Format(SumAmounts(read.entries)),
             year_reports |->
               YearReports(read.entries,
                 SortedKeys({YearKey(read.entries[i]) : i \in 1..Len(read.entries)}))]]

ReportViewModel_new(name, file) == ReportOf(name, entries_from_file(file))

(***************************************************************************)
(* App (src/src/tui.rs).  Indices count from 0 as in the source.           *)
(***************************************************************************)
\* usize::MAX, what 0 - 1 wraps to when overflow checks are off; it stands
\* here as the largest integer of the model checker.
UsizeMax == 2147483647

DateError == "Invalid date format. Use YYYY-MM-DD"

AmountError == "Invalid amount format. Use decimal number"

SaveError == "Failed to save"

Popup_new ==
    [mode |-> "None", focus |-> "Date", date_input |-> <<>>, amount_input |-> <<>>,
     error_message |-> "None"]

App_literal(files) ==
    [files |-> files, selected_file |-> 0, focus |-> "FileSelection",
     report |-> ReportViewModel_default, selected_year |-> 0, selected_entry |-> 0,
     popup |-> Popup_new]

\* Vec::get
Get(seq, i) == IF i >= 0 /\ i < Len(seq) THEN <<seq[i + 1]>> ELSE <<>>

\* a - 1 on usize: a panic with overflow checks, a wrap without.
SubOne(a) == IF a = 0 THEN UsizeMax ELSE a - 1

Step(self) == [app |-> self, load |-> "none", panic |-> FALSE]

\* A fault seeded in select_file: the first year is selected, not the last.
Selected_first(self, built, checks) ==
    IF ~built.ok THEN [app |-> self, load |-> "err", panic |-> FALSE]
    ELSE IF Len(built.report.year_reports) = 0 /\ checks
    THEN [app |-> self, load |-> "ok", panic |-> TRUE]
    ELSE [app |-> [self EXCEPT !.selected_year = 0, !.report = built.report],
          load |-> "ok", panic |-> FALSE]

\* A fault seeded in select_file: the entry cursor is reset with the year
\* cursor.
Selected_resets_entry(self, built, checks) ==
    IF ~built.ok THEN [app |-> self, load |-> "err", panic |-> FALSE]
    ELSE IF Len(built.report.year_reports) = 0 /\ checks
    THEN [app |-> self, load |-> "ok", panic |-> TRUE]
    ELSE [app |-> [self EXCEPT !.selected_year = SubOne(Len(built.report.year_reports)),
                               !.selected_entry = 0,
                               !.report = built.report],
          load |-> "ok", panic |-> FALSE]

\* The match of select_file on the result of ReportViewModel::new.
Selected(self, built, checks) ==
    IF ~built.ok THEN [app |-> self, load |-> "err", panic |-> FALSE]
    ELSE IF Len(built.report.year_reports) = 0 /\ checks
    THEN [app |-> self, load |-> "ok", panic |-> TRUE]
    ELSE [app |-> [self EXCEPT !.selected_year = SubOne(Len(built.report.year_reports)),
                               !.report = built.report],
          load |-> "ok", panic |-> FALSE]

select_file(self, dsk, checks) ==
    IF Get(self.files, self.selected_file) = <<>> THEN Step(self)
    ELSE Selected(self,
                  ReportViewModel_new(self.files[self.selected_file + 1],
                                      dsk[self.files[self.selected_file + 1]]),
                  checks)

App_new(files, dsk, checks) == select_file(App_literal(files), dsk, checks)

\* Faults seeded in cycle_focus: the entry cursor is kept; the entries panel
\* is skipped; the year cursor is reset with the entry cursor.
cycle_focus_keeps(self) ==
    [self EXCEPT !.focus = CASE self.focus = "FileSelection" -> "Years"
                             [] self.focus = "Years" -> "YearDetails"
                             [] self.focus = "YearDetails" -> "FileSelection"]

cycle_focus_skips(self) ==
    [self EXCEPT !.focus = CASE self.focus = "FileSelection" -> "Years"
                             [] self.focus = "Years" -> "FileSelection"
                             [] self.focus = "YearDetails" -> "FileSelection",
                 !.selected_entry = 0]

cycle_focus_resets_year(self) ==
    [self EXCEPT !.focus = CASE self.focus = "FileSelection" -> "Years"
                             [] self.focus = "Years" -> "YearDetails"
                             [] self.focus = "YearDetails" -> "FileSelection",
                 !.selected_year = 0,
                 !.selected_entry = 0]

cycle_focus(self) ==
    [self EXCEPT !.focus = CASE self.focus = "FileSelection" -> "Years"
                             [] self.focus = "Years" -> "YearDetails"
                             [] self.focus = "YearDetails" -> "FileSelection",
                 !.selected_entry = 0]

entry_count(self) ==
    IF Get(self.report.year_reports, self.selected_year) = <<>> THEN 0
    ELSE Len(self.report.year_reports[self.selected_year + 1].lines)

\* Faults seeded in next: the ledger cursor moves and the report is not
\* loaded; the year cursor moves and the entry cursor goes to the last row.
next_noreload(self, dsk, checks) ==
    CASE self.focus = "FileSelection" ->
           Step([self EXCEPT !.selected_file =
                   IF self.selected_file + 1 >= Len(self.files) THEN 0
                   ELSE self.selected_file + 1])
      [] self.focus = "Years" ->
           Step([self EXCEPT !.selected_year =
                   IF self.selected_year + 1 >= Len(self.report.year_reports) THEN 0
                   ELSE self.selected_year + 1,
                 !.selected_entry = 0])
      [] self.focus = "YearDetails" ->
           Step([self EXCEPT !.selected_entry =
                   IF self.selected_entry + 1 >= entry_count(self) THEN 0
                   ELSE self.selected_entry + 1])

next_last(self, dsk, checks) ==
    CASE self.focus = "FileSelection" ->
           select_file([self EXCEPT !.selected_file =
                          IF self.selected_file + 1 >= Len(self.files) THEN 0
                          ELSE self.selected_file + 1], dsk, checks)
      [] self.focus = "Years" ->
           LET year == IF self.selected_year + 1 >= Len(self.report.year_reports) THEN 0
                       ELSE self.selected_year + 1
           IN  Step([self EXCEPT !.selected_year = year,
                                 !.selected_entry =
                                    Max(entry_count([self EXCEPT !.selected_year = year]) - 1, 0)])
      [] self.focus = "YearDetails" ->
           Step([self EXCEPT !.selected_entry =
                   IF self.selected_entry + 1 >= entry_count(self) THEN 0
                   ELSE self.selected_entry + 1])

next(self, dsk, checks) ==
    CASE self.focus = "FileSelection" ->
           select_file([self EXCEPT !.selected_file =
                          IF self.selected_file + 1 >= Len(self.files) THEN 0
                          ELSE self.selected_file + 1], dsk, checks)
      [] self.focus = "Years" ->
           Step([self EXCEPT !.selected_year =
                   IF self.selected_year + 1 >= Len(self.report.year_reports) THEN 0
                   ELSE self.selected_year + 1,
                 !.selected_entry = 0])
      [] self.focus = "YearDetails" ->
           Step([self EXCEPT !.selected_entry =
                   IF self.selected_entry + 1 >= entry_count(self) THEN 0
                   ELSE self.selected_entry + 1])

previous(self, dsk, checks) ==
    CASE self.focus = "FileSelection" ->
           IF self.selected_file = 0 /\ Len(self.files) = 0 /\ checks
           THEN [app |-> self, load |-> "none", panic |-> TRUE]
           ELSE select_file([self EXCEPT !.selected_file =
                               IF self.selected_file = 0 THEN SubOne(Len(self.files))
                               ELSE self.selected_file - 1], dsk, checks)
      [] self.focus = "Years" ->
           Step([self EXCEPT !.selected_year =
                   IF self.selected_year = 0
                   THEN Max(Len(self.report.year_reports) - 1, 0)
                   ELSE self.selected_year - 1,
                 !.selected_entry = 0])
      [] self.focus = "YearDetails" ->
           Step([self EXCEPT !.selected_entry =
                   IF self.selected_entry = 0 THEN Max(entry_count(self) - 1, 0)
                   ELSE self.selected_entry - 1])

\* Some(entry) as <<entry>>, None as <<>>.
get_selected_entry(self) ==
    IF Get(self.report.year_reports, self.selected_year) = <<>> THEN <<>>
    ELSE Get(self.report.year_reports[self.selected_year + 1].entries, self.selected_entry)

\* Faults seeded in open_add_entry_popup: the date is not filled in; the
\* field focus is put on the amount.
open_add_entry_popup_blank(self, today) ==
    [self EXCEPT !.popup = [mode |-> "AddEntry", focus |-> "Date",
                            date_input |-> <<>>, amount_input |-> <<>>,
                            error_message |-> "None"]]

open_add_entry_popup_amount(self, today) ==
    [self EXCEPT !.popup = [mode |-> "AddEntry", focus |-> "Amount",
                            date_input |-> DateToText(today), amount_input |-> <<>>,
                            error_message |-> "None"]]

open_add_entry_popup(self, today) ==
    [self EXCEPT !.popup = [mode |-> "AddEntry", focus |-> "Date",
                            date_input |-> DateToText(today), amount_input |-> <<>>,
                            error_message |-> "None"]]

\* A fault seeded in open_edit_entry_popup: the buffers are filled from the
\* first entry of the year, not from the selected one.
open_edit_first(self) ==
    IF get_selected_entry(self) = <<>> THEN self
    ELSE LET selected_entry == self.report.year_reports[self.selected_year + 1].entries[1]
         IN  [self EXCEPT !.popup = [mode |-> "EditEntry", focus |-> "Date",
                                     date_input |-> selected_entry.date,
                                     amount_input |-> DecToText(selected_entry.amount),
                                     error_message |-> "None"]]

\* A fault seeded in open_edit_entry_popup: the amount buffer is filled with
\* the amount as the row shows it, rounded to two places.
open_edit_displayed(self) ==
    IF get_selected_entry(self) = <<>> THEN self
    ELSE LET selected_entry == get_selected_entry(self)[1]
         IN  [self EXCEPT !.popup = [mode |-> "EditEntry", focus |-> "Date",
                                     date_input |-> selected_entry.date,
                                     amount_input |->
                                       SelectSeq(Format(selected_entry.amount),
                                                 LAMBDA c : c # " "),
                                     error_message |-> "None"]]

open_edit_entry_popup(self) ==
    IF get_selected_entry(self) = <<>> THEN self
    ELSE LET selected_entry == get_selected_entry(self)[1]
         IN  [self EXCEPT !.popup = [mode |-> "EditEntry", focus |-> "Date",
                                     date_input |-> selected_entry.date,
                                     amount_input |-> DecToText(selected_entry.amount),
                                     error_message |-> "None"]]

\* A fault seeded in close_popup: the mode is reset, the buffers are kept.
close_popup_keeps(self) == [self EXCEPT !.popup.mode = "None"]

\* A fault seeded in close_popup: the entry cursor is reset with the popup.
close_popup_resets_cursor(self) ==
    [self EXCEPT !.popup = Popup_new, !.selected_entry = 0]

\* A fault seeded in close_popup: the message is kept.
close_popup_keeps_error(self) ==
    [self EXCEPT !.popup = [Popup_new EXCEPT !.error_message = self.popup.error_message]]

close_popup(self) == [self EXCEPT !.popup = Popup_new]

\* A fault seeded in cycle_popup_focus: the message is cleared as by a key.
cycle_popup_focus_clears_error(self) ==
    [self EXCEPT !.popup.focus = IF self.popup.focus = "Date" THEN "Amount" ELSE "Date",
                 !.popup.error_message = "None"]

cycle_popup_focus(self) ==
    [self EXCEPT !.popup.focus = IF self.popup.focus = "Date" THEN "Amount" ELSE "Date"]

\* Bytes of a character in UTF-8 (String::len counts bytes): "é" takes two,
\* the ASCII characters one.
Utf8Len(c) == IF c = "é" THEN 2 ELSE 1

RECURSIVE ByteLen(_)
ByteLen(t) == IF t = <<>> THEN 0 ELSE Utf8Len(Head(t)) + ByteLen(Tail(t))

\* A key of the popup: <<"Char", c>> or <<"Backspace">>.  The cursor of a
\* tui_input::Input stays at the end of its value, where a character is
\* inserted and before which a backspace deletes.
InsertChar(value, c) == Append(value, c)

DeletePrevChar(value) == IF value = <<>> THEN value ELSE Take(value, Len(value) - 1)

Edit(value, key) ==
    IF key[1] = "Char" THEN InsertChar(value, key[2]) ELSE DeletePrevChar(value)

\* value()[..10]: the characters that fill the first 10 bytes; a panic when
\* byte 10 is inside a character.
Truncate10(value) ==
    LET cuts == {k \in 0..Len(value) : ByteLen(Take(value, k)) = 10}
    IN  IF cuts = {} THEN [panic |-> TRUE, value |-> value]
        ELSE [panic |-> FALSE, value |-> Take(value, CHOOSE k \in cuts : TRUE)]

\* A fault seeded in handle_popup_input: the test that the amount is empty
\* when a minus sign is typed is left out.
AmountAccepts_any_minus(value, key) ==
    \/ key[1] = "Backspace"
    \/ /\ key[1] = "Char"
       /\ IsDigit(key[2]) \/ key[2] = "." \/ key[2] = "-"

AmountAccepts(value, key) ==
    \/ key[1] = "Backspace"
    \/ /\ key[1] = "Char"
       /\ IsDigit(key[2]) \/ key[2] = "." \/ key[2] = "-"
       /\ ~(key[2] = "-" /\ value # <<>>)

\* A fault seeded in handle_popup_input: a backspace goes to the date
\* buffer whichever field has the focus.
handle_popup_input_backspace_date(self, key) ==
    LET s0 == [self EXCEPT !.popup.error_message = "None"]
    IN  IF s0.popup.focus = "Date" \/ key[1] = "Backspace"
        THEN LET typed == Edit(s0.popup.date_input, key)
                 cut == IF ByteLen(typed) > 10 THEN Truncate10(typed)
                        ELSE [panic |-> FALSE, value |-> typed]
             IN  [app |-> [s0 EXCEPT !.popup.date_input = cut.value],
                  load |-> "none", panic |-> cut.panic]
        ELSE IF AmountAccepts(s0.popup.amount_input, key)
             THEN Step([s0 EXCEPT !.popup.amount_input = Edit(s0.popup.amount_input, key)])
             ELSE Step(s0)

\* A fault seeded in handle_popup_input: the message is not cleared.
handle_popup_input_keeps_error(self, key) ==
    IF self.popup.focus = "Date"
    THEN LET typed == Edit(self.popup.date_input, key)
             cut == IF ByteLen(typed) > 10 THEN Truncate10(typed)
                    ELSE [panic |-> FALSE, value |-> typed]
         IN  [app |-> [self EXCEPT !.popup.date_input = cut.value],
              load |-> "none", panic |-> cut.panic]
    ELSE IF AmountAccepts(self.popup.amount_input, key)
         THEN Step([self EXCEPT !.popup.amount_input = Edit(self.popup.amount_input, key)])
         ELSE Step(self)

handle_popup_input(self, key) ==
    LET s0 == [self EXCEPT !.popup.error_message = "None"]
    IN  IF s0.popup.focus = "Date"
        THEN LET typed == Edit(s0.popup.date_input, key)
                 cut == IF ByteLen(typed) > 10 THEN Truncate10(typed)
                        ELSE [panic |-> FALSE, value |-> typed]
             IN  [app |-> [s0 EXCEPT !.popup.date_input = cut.value],
                  load |-> "none", panic |-> cut.panic]
        ELSE IF AmountAccepts(s0.popup.amount_input, key)
             THEN Step([s0 EXCEPT !.popup.amount_input = Edit(s0.popup.amount_input, key)])
             ELSE Step(s0)

\* What the file system answers to a save: the write succeeds, the file
\* cannot be opened, or it is opened and the write or flush fails.
IO == {"ok", "open_err", "write_err"}

EntryLines(entries) ==
    [i \in 1..Len(entries) |-> Row(entries[i].date, entries[i].amount)]

\* A fault seeded in add_entry_to_file: the file is opened to be truncated,
\* not appended to.
add_entry_truncating(file, date, amount, io) ==
    CASE io = "open_err" -> [ok |-> FALSE, file |-> file, save |-> "open_err"]
      [] io = "write_err" -> [ok |-> FALSE, file |-> File(<<>>), save |-> "write_err"]
      [] io = "ok" -> [ok |-> TRUE,
                       file |-> File(<<HeaderLine, Row(DateToText(date), amount)>>),
                       save |-> "ok"]

add_entry_to_file(file, date, amount, io) ==
    LET read == entries_from_file(file)
        entries == IF read.ok THEN read.entries ELSE <<>>
        new_entry == Row(DateToText(date), amount)
        header == IF entries = <<>> THEN <<HeaderLine>> ELSE <<>>
    IN  CASE io = "open_err" -> [ok |-> FALSE, file |-> file, save |-> "open_err"]
          [] io = "write_err" -> [ok |-> FALSE, file |-> File(file.lines), save |-> "write_err"]
          [] io = "ok" -> [ok |-> TRUE, file |-> File(file.lines \o header \o <<new_entry>>),
                           save |-> "ok"]

\* add_entry of the library (the new-entry command): the append of
\* add_entry_to_file, the total of the entries read before it and the total
\* of the entries read back after it.  The error of the read-back comes
\* after the write.
add_entry(file, date, amount, io) ==
    LET read == entries_from_file(file)
        entries == IF read.ok THEN read.entries ELSE <<>>
        new_entry == Row(DateToText(date), amount)
        header == IF entries = <<>> THEN <<HeaderLine>> ELSE <<>>
        written == File(file.lines \o header \o <<new_entry>>)
        again == entries_from_file(written)
    IN  CASE io = "open_err" ->
               [ok |-> FALSE, file |-> file, save |-> "open_err",
                total_before |-> SumAmounts(entries), total_after |-> DecZero]
          [] io = "write_err" ->
               [ok |-> FALSE, file |-> File(file.lines), save |-> "write_err",
                total_before |-> SumAmounts(entries), total_after |-> DecZero]
          [] io = "ok" ->
               [ok |-> again.ok, file |-> written,
                save |-> IF again.ok THEN "ok" ELSE "read_err",
                total_before |-> SumAmounts(entries),
                total_after |-> SumAmounts(again.entries)]

\* entries.sort_by(|a, b| a.date.cmp(&b.date)): a stable sort by the date
\* strings in the order of str.
RECURSIVE sort_by(_)
sort_by(entries) ==
    IF entries = <<>> THEN <<>>
    ELSE LET first == CHOOSE i \in 1..Len(entries) :
                        \A j \in 1..Len(entries) :
                          /\ ~TextLess(entries[j].date, entries[i].date)
                          /\ j < i => TextLess(entries[i].date, entries[j].date)
         IN  <<entries[first]>>
             \o sort_by(Take(entries, first - 1) \o Drop(entries, first))

\* The sort command: the entries read, sorted, and written over the
\* truncated file; the writer puts the header line in front of the first
\* record it serializes.
sort_command(file, io) ==
    LET read == entries_from_file(file)
        sorted == sort_by(read.entries)
    IN  IF ~read.ok THEN [ok |-> FALSE, file |-> file, save |-> "read_err"]
        ELSE CASE io = "open_err" -> [ok |-> FALSE, file |-> file, save |-> "open_err"]
               [] io = "write_err" -> [ok |-> FALSE, file |-> File(<<>>), save |-> "write_err"]
               [] io = "ok" ->
                    [ok |-> TRUE,
                     file |-> File((IF sorted = <<>> THEN <<>> ELSE <<HeaderLine>>)
                                   \o EntryLines(sorted)),
                     save |-> "ok"]

\* A fault seeded in the search: the last match is taken.
FindLast(entries, selected) ==
    LET matches == {i \in 1..Len(entries) :
                      /\ selected # <<>>
                      /\ entries[i].date = selected[1].date
                      /\ entries[i].amount = selected[1].amount}
    IN  IF matches = {} THEN 0 ELSE CHOOSE i \in matches : \A j \in matches : i >= j

\* iter_mut().find(..): the first entry equal to the selected one in date and
\* amount, 0 when there is none.
FindEntry(entries, selected) ==
    LET matches == {i \in 1..Len(entries) :
                      /\ selected # <<>>
                      /\ entries[i].date = selected[1].date
                      /\ entries[i].amount = selected[1].amount}
    IN  IF matches = {} THEN 0 ELSE CHOOSE i \in matches : \A j \in matches : i <= j

\* A fault seeded in the rewrite: the edited entry is written last.
Rewrite_moved(file, read, found, new_entry, io) ==
    IF ~read.ok THEN [ok |-> FALSE, file |-> file, save |-> "read_err"]
    ELSE IF found = 0 THEN [ok |-> TRUE, file |-> file, save |-> "nomatch"]
    ELSE CASE io = "open_err" -> [ok |-> FALSE, file |-> file, save |-> "open_err"]
           [] io = "write_err" -> [ok |-> FALSE, file |-> File(<<>>), save |-> "write_err"]
           [] io = "ok" ->
                [ok |-> TRUE,
                 file |-> File(<<HeaderLine>>
                               \o EntryLines(Take(read.entries, found - 1)
                                             \o Drop(read.entries, found)
                                             \o <<new_entry>>)),
                 save |-> "ok"]

\* edit_entry_in_file once the file is read and the entry looked for.
Rewrite(file, read, found, new_entry, io) ==
    IF ~read.ok THEN [ok |-> FALSE, file |-> file, save |-> "read_err"]
    ELSE IF found = 0 THEN [ok |-> TRUE, file |-> file, save |-> "nomatch"]
    ELSE CASE io = "open_err" -> [ok |-> FALSE, file |-> file, save |-> "open_err"]
           [] io = "write_err" -> [ok |-> FALSE, file |-> File(<<>>), save |-> "write_err"]
           [] io = "ok" ->
                [ok |-> TRUE,
                 file |-> File(<<HeaderLine>>
                               \o EntryLines([read.entries EXCEPT ![found] = new_entry])),
                 save |-> "ok"]

edit_entry_in_file(self, file, date, amount, io) ==
    Rewrite(file, entries_from_file(file),
            FindEntry(entries_from_file(file).entries, get_selected_entry(self)),
            Entry(DateToText(date), amount), io)

\* A fault seeded in handle_saving_popup_entry: the report is reloaded
\* whether the save succeeded or not.
Saved_reloads(s0, result, written, loaded) ==
    IF result.ok
    THEN [app |-> IF loaded.panic THEN loaded.app ELSE close_popup(loaded.app),
          disk |-> written, save |-> result.save, load |-> loaded.load,
          panic |-> loaded.panic]
    ELSE [app |-> [loaded.app EXCEPT !.popup.error_message = SaveError],
          disk |-> written, save |-> result.save, load |-> loaded.load,
          panic |-> loaded.panic]

\* The match of handle_saving_popup_entry on the result of the save: reload
\* and close, or report the failure.  A Confirm results in the App, the
\* files, how the validation and the save ended, how the reload ended.
Saved(s0, result, written, loaded) ==
    IF result.ok
    THEN [app |-> IF loaded.panic THEN loaded.app ELSE close_popup(loaded.app),
          disk |-> written, save |-> result.save, load |-> loaded.load,
          panic |-> loaded.panic]
    ELSE [app |-> [s0 EXCEPT !.popup.error_message = SaveError],
          disk |-> written, save |-> result.save, load |-> "none", panic |-> FALSE]

Reload(s0, result, written, checks) ==
    Saved(s0, result, written, select_file(s0, written, checks))

Save(s0, dsk, file_path, result, checks) ==
    Reload(s0, result, [dsk EXCEPT ![file_path] = result.file], checks)

\* A fault seeded in handle_saving_popup_entry: the amount is validated
\* before the date.
Validated_amount_first(s0, dsk, date, amount, io, checks) ==
    IF ~amount.ok
    THEN [app |-> [s0 EXCEPT !.popup.error_message = AmountError], disk |-> dsk,
          save |-> "amount_err", load |-> "none", panic |-> FALSE]
    ELSE IF ~date.ok
    THEN [app |-> [s0 EXCEPT !.popup.error_message = DateError], disk |-> dsk,
          save |-> "date_err", load |-> "none", panic |-> FALSE]
    ELSE Save(s0, dsk, s0.files[s0.selected_file + 1],
              IF s0.popup.mode = "AddEntry"
              THEN add_entry_to_file(dsk[s0.files[s0.selected_file + 1]],
                                     date, amount.value, io)
              ELSE edit_entry_in_file(s0, dsk[s0.files[s0.selected_file + 1]],
                                      date, amount.value, io),
              checks)

Validated(s0, dsk, date, amount, io, checks) ==
    IF ~date.ok
    THEN [app |-> [s0 EXCEPT !.popup.error_message = DateError], disk |-> dsk,
          save |-> "date_err", load |-> "none", panic |-> FALSE]
    ELSE IF ~amount.ok
    THEN [app |-> [s0 EXCEPT !.popup.error_message = AmountError], disk |-> dsk,
          save |-> "amount_err", load |-> "none", panic |-> FALSE]
    ELSE Save(s0, dsk, s0.files[s0.selected_file + 1],
              IF s0.popup.mode = "AddEntry"
              THEN add_entry_to_file(dsk[s0.files[s0.selected_file + 1]],
                                     date, amount.value, io)
              ELSE edit_entry_in_file(s0, dsk[s0.files[s0.selected_file + 1]],
                                      date, amount.value, io),
              checks)

\* A fault seeded in handle_saving_popup_entry: an amount that does not
\* parse is saved as zero.
handle_saving_or_default(self, dsk, io, checks) ==
    Validated([self EXCEPT !.popup.error_message = "None"], dsk,
              ParseDate(self.popup.date_input),
              [ok |-> TRUE, value |-> ParseDecimal(self.popup.amount_input).value],
              io, checks)

handle_saving_popup_entry(self, dsk, io, checks) ==
    Validated([self EXCEPT !.popup.error_message = "None"], dsk,
              ParseDate(self.popup.date_input), ParseDecimal(self.popup.amount_input),
              io, checks)

\* ui: the entries panel indexes year_reports[selected_year].
ui_panics(self) == self.selected_year >= Len(self.report.year_reports)

(***************************************************************************)
(* The inputs of a run: the list of ledger files, what they hold, today's  *)
(* date, the keys.                                                         *)
(***************************************************************************)
Date(y, m, d) == [ok |-> TRUE, y |-> y, m |-> m, d |-> d]

Dec(m, s) == Norm(m, s)

Paths == {"a.csv", "b.csv", "c.csv"}

OnDisk(a, b, c) == [p \in Paths |-> CASE p = "a.csv" -> a [] p = "b.csv" -> b [] OTHER -> c]

\* Two years of unequal length, the first with two equal entries.
TwoYears ==
    File(<<HeaderLine,
           Row(DateToText(Date(2024, 1, 15)), Dec(5, 0)),
           Row(DateToText(Date(2024, 1, 15)), Dec(5, 0)),
           Row(DateToText(Date(2025, 3, 1)), Dec(-25, 1))>>)

\* Two years, the later one first in the file and with two rows.
LaterFirst ==
    File(<<HeaderLine,
           Row(DateToText(Date(2025, 6, 15)), Dec(500, 0)),
           Row(DateToText(Date(2024, 12, 31)), Dec(1000, 0)),
           Row(DateToText(Date(2025, 1, 10)), Dec(125, 2))>>)

Single == File(<<HeaderLine, Row(DateToText(Date(2024, 2, 1)), Dec(1, 0))>>)

\* A row whose date is no day of the calendar (2024-13-01).
BadDate ==
    File(<<HeaderLine,
           Row(DateToText(Date(2024, 2, 1)), Dec(1, 0)),
           Row(DateToText(Date(2024, 13, 1)), Dec(7, 0))>>)

\* A year of three rows, then a year of two; the first row of the later
\* year writes its month with one digit (2025-2-01, nine bytes).
ThreeAndTwo ==
    File(<<HeaderLine,
           Row(DateToText(Date(2024, 1, 15)), Dec(5, 0)),
           Row(DateToText(Date(2024, 2, 20)), Dec(10, 0)),
           Row(DateToText(Date(2024, 3, 10)), Dec(-255, 1)),
           Row(<<"2", "0", "2", "5", "-", "2", "-", "0", "1">>, Dec(1, 0)),
           Row(DateToText(Date(2025, 3, 5)), Dec(2, 0))>>)

\* The years 999 and 1000, half a hundredth in each.
EarlyYears ==
    File(<<HeaderLine,
           Row(DateToText(Date(999, 12, 31)), Dec(5, 3)),
           Row(DateToText(Date(1000, 1, 1)), Dec(5, 3))>>)

HeaderOnly == File(<<HeaderLine>>)

ZeroBytes == File(<<>>)

Garbage == File(<<HeaderLine, BadRow>>)

Runs ==
    { [files |-> <<"a.csv", "b.csv">>, disk |-> OnDisk(TwoYears, Missing, Missing)],
      [files |-> <<"a.csv", "b.csv">>, disk |-> OnDisk(Single, LaterFirst, Missing)],
      [files |-> <<"a.csv", "b.csv", "c.csv">>, disk |-> OnDisk(Single, BadDate, Garbage)],
      [files |-> <<"a.csv", "b.csv", "c.csv">>, disk |-> OnDisk(Single, ZeroBytes, HeaderOnly)],
      [files |-> <<"a.csv">>, disk |-> OnDisk(ThreeAndTwo, Missing, Missing)],
      [files |-> <<"a.csv", "b.csv">>, disk |-> OnDisk(EarlyYears, BadDate, Missing)],
      [files |-> <<"a.csv">>, disk |-> OnDisk(Missing, Missing, Missing)],
      [files |-> <<>>, disk |-> OnDisk(Missing, Missing, Missing)] }

Todays == {Date(2026, 1, 1)}

KeyChars == {"1", "-", "é"}

PopupKeys == {<<"Char", c>> : c \in KeyChars} \cup {<<"Backspace">>}

(***************************************************************************)
(* The event loop (run_tui_loop): one action per event, the redraw that    *)
(* follows it included.                                                    *)
(***************************************************************************)
VARIABLES
    app,      \* the App
    disk,     \* the ledger files
    run,      \* "new", "running" (waiting for an event), "quit", "panicked"
    last,     \* how the Confirm just handled ended, "none" after any other event
    opened,   \* the files, the report, the selection and the number of saves
              \* when the open popup was opened
    keys,     \* editing keystrokes so far
    saves     \* saves attempted so far

vars == <<app, disk, run, last, opened, keys, saves>>

Selection(self) ==
    [focus |-> self.focus, selected_file |-> self.selected_file,
     selected_year |-> self.selected_year, selected_entry |-> self.selected_entry]

Snapshot(self, dsk, n) ==
    [disk |-> dsk, report |-> self.report, selection |-> Selection(self), saves |-> n]

NoSnapshot ==
    [disk |-> <<>>, report |-> ReportViewModel_default, selection |-> <<>>, saves |-> 0]

\* The state after a handler, and after the redraw unless the handler panicked.
Handled(result, save) ==
    /\ app' = result.app
    /\ run' = IF result.panic \/ ui_panics(result.app) THEN "panicked" ELSE "running"
    /\ last' = save

Init ==
    /\ \E r \in Runs : app = App_literal(r.files) /\ disk = r.disk
    /\ run = "new"
    /\ last = "none"
    /\ opened = NoSnapshot
    /\ keys = 0
    /\ saves = 0

\* App::new and the first draw.
Start ==
    /\ run = "new"
    /\ \E checks \in BOOLEAN : Handled(App_new(app.files, disk, checks), "none")
    /\ UNCHANGED <<disk, opened, keys, saves>>

Navigating == run = "running" /\ app.popup.mode = "None"

InPopup == run = "running" /\ app.popup.mode # "None"

KeyQuit ==
    /\ Navigating
    /\ run' = "quit"
    /\ last' = "none"
    /\ UNCHANGED <<app, disk, opened, keys, saves>>

KeyAdd ==
    /\ Navigating
    /\ \E today \in Todays : Handled(Step(open_add_entry_popup(app, today)), "none")
    /\ opened' = Snapshot(app, disk, saves)
    /\ UNCHANGED <<disk, keys, saves>>

KeyEdit ==
    /\ Navigating
    /\ Handled(Step(open_edit_entry_popup(app)), "none")
    /\ opened' = IF app'.popup.mode = "None" THEN NoSnapshot ELSE Snapshot(app, disk, saves)
    /\ UNCHANGED <<disk, keys, saves>>

KeyDown ==
    /\ Navigating
    /\ \E checks \in BOOLEAN : Handled(next(app, disk, checks), "none")
    /\ UNCHANGED <<disk, opened, keys, saves>>

KeyUp ==
    /\ Navigating
    /\ \E checks \in BOOLEAN : Handled(previous(app, disk, checks), "none")
    /\ UNCHANGED <<disk, opened, keys, saves>>

KeyTab ==
    /\ Navigating
    /\ Handled(Step(cycle_focus(app)), "none")
    /\ UNCHANGED <<disk, opened, keys, saves>>

PopupCancel ==
    /\ InPopup
    /\ Handled(Step(close_popup(app)), "none")
    /\ opened' = NoSnapshot
    /\ UNCHANGED <<disk, keys, saves>>

PopupTab ==
    /\ InPopup
    /\ Handled(Step(cycle_popup_focus(app)), "none")
    /\ UNCHANGED <<disk, opened, keys, saves>>

PopupInput ==
    /\ InPopup
    /\ keys < MaxKeys
    /\ \E key \in PopupKeys : Handled(handle_popup_input(app, key), "none")
    /\ keys' = keys + 1
    /\ UNCHANGED <<disk, opened, saves>>

Confirmed(result) ==
    /\ result.save \notin {"date_err", "amount_err"} => saves < MaxSaves
    /\ Handled(result, result.save)
    /\ disk' = result.disk
    /\ saves' = IF result.save \in {"date_err", "amount_err"} THEN saves ELSE saves + 1
    /\ opened' = IF result.app.popup.mode = "None" THEN NoSnapshot ELSE opened

PopupEnter ==
    /\ InPopup
    /\ \E io \in IO, checks \in BOOLEAN :
         Confirmed(handle_saving_popup_entry(app, disk, io, checks))
    /\ UNCHANGED keys

\* Any other event: no handler runs, the screen is redrawn.
Ignored ==
    /\ run = "running"
    /\ Handled(Step(app), "none")
    /\ UNCHANGED <<disk, opened, keys, saves>>

Next ==
    \/ Start
    \/ KeyQuit
    \/ KeyAdd
    \/ KeyEdit
    \/ KeyDown
    \/ KeyUp
    \/ KeyTab
    \/ PopupCancel
    \/ PopupTab
    \/ PopupInput
    \/ PopupEnter
    \/ Ignored

Spec == Init /\ [][Next]_vars

(***************************************************************************)
(* The command line (src/src/main.rs, src/src/lib.rs): commands run one    *)
(* after the other on the ledger a.csv.  Here run is "cli", last is how    *)
(* the command just run ended, opened holds the files of before it and     *)
(* saves counts the commands; app and keys play no part.                   *)
(***************************************************************************)
CliFiles ==
    {Missing, ZeroBytes, HeaderOnly, Single, TwoYears, LaterFirst, ThreeAndTwo, Garbage}

CliDates == {Date(2024, 9, 12), Date(2023, 12, 31)}

CliAmounts == {Dec(-900, 0), Dec(4242, 2)}

CliInit ==
    /\ \E f \in CliFiles : disk = OnDisk(f, Missing, Missing)
    /\ app = App_literal(<<"a.csv">>)
    /\ run = "cli"
    /\ last = "none"
    /\ opened = NoSnapshot
    /\ keys = 0
    /\ saves = 0

\* new-entry --amount .. --date .. on a.csv.
NewEntry ==
    /\ run = "cli"
    /\ saves < MaxCommands
    /\ \E date \in CliDates, amount \in CliAmounts, io \in IO :
         /\ disk' = [disk EXCEPT !["a.csv"] = add_entry(disk["a.csv"], date, amount, io).file]
         /\ last' = add_entry(disk["a.csv"], date, amount, io).save
    /\ opened' = Snapshot(app, disk, saves)
    /\ saves' = saves + 1
    /\ UNCHANGED <<app, run, keys>>

\* sort on a.csv.
Sort ==
    /\ run = "cli"
    /\ saves < MaxCommands
    /\ \E io \in IO :
         /\ disk' = [disk EXCEPT !["a.csv"] = sort_command(disk["a.csv"], io).file]
         /\ last' = sort_command(disk["a.csv"], io).save
    /\ opened' = Snapshot(app, disk, saves)
    /\ saves' = saves + 1
    /\ UNCHANGED <<app, run, keys>>

CliNext == NewEntry \/ Sort

CliSpec == CliInit /\ [][CliNext]_vars

(***************************************************************************)
(* Properties.  What a step is about is read from the action it is a step  *)
(* of and, for a Confirm, from how its save ended (last').                 *)
(***************************************************************************)
\* The path of the selected ledger.
Path(self) == self.files[self.selected_file + 1]

\* The view model of what the selected ledger holds on disk.
Built(self, dsk) == ReportViewModel_new(Path(self), dsk[Path(self)])

\* The entries of a file, none when it cannot be read.
EntriesOf(file) == entries_from_file(file).entries

Waiting == run = "running"

LedgerMove == Navigating /\ app.focus = "FileSelection" /\ (KeyDown \/ KeyUp)

YearMove == Navigating /\ app.focus = "Years" /\ (KeyDown \/ KeyUp)

\* A Confirm whose save step ended as the set says.
ConfirmEnding(ends) == InPopup /\ last' \in ends /\ PopupEnter

\* The steps that load the report.
Reloading == Start \/ LedgerMove \/ ConfirmEnding({"ok", "nomatch"})

\* The entry the buffers of the popup stand for.
Typed(self) ==
    Entry(DateToText(ParseDate(self.popup.date_input)),
          ParseDecimal(self.popup.amount_input).value)

\* The report after a reload: of the file when it loads, as before when not.
ReloadedOrKept ==
    IF Built(app', disk').ok THEN app'.report = Built(app', disk').report
    ELSE app'.report = app.report

YearValid(self) ==
    \/ self.selected_year \in 0..(Len(self.report.year_reports) - 1)
    \/ self.report.year_reports = <<>> /\ self.selected_year = 0

EntryValid(self) ==
    \/ self.selected_entry \in 0..(entry_count(self) - 1)
    \/ entry_count(self) = 0 /\ self.selected_entry = 0

\* C1: wherever the TUI waits for an event or has quit, selected_year is an
\* index of a year of the report (0 when there is none) and selected_entry an
\* index of a row of that year (0 when there is none).
C1_SelectionValid == run \in {"running", "quit"} => YearValid(app) /\ EntryValid(app)

\* C2 as the spec states it: wherever the loop waits for an event, the report
\* is the view model of what the selected ledger holds on disk.
C2_ReportIsDisk ==
    Waiting => Built(app, disk).ok /\ app.report = Built(app, disk).report

\* C2: after start-up, after a move of the ledger cursor and after a Confirm
\* whose save succeeded, the report is the view model of what the selected
\* ledger holds on disk if that file loads, and the report of before if it
\* does not; no other event changes the report.
C2_ReportReloaded ==
    [][IF Reloading THEN run' = "running" => ReloadedOrKept
       ELSE app'.report = app.report]_vars

\* A ledger cursor on a file that does not load, the report still that of
\* the ledger left.
C2_Witness ==
    /\ Waiting
    /\ app.selected_file = 1
    /\ ~Built(app, disk).ok
    /\ app.report.title = "a.csv"

AddedStep == ConfirmEnding({"ok"}) /\ app.popup.mode = "AddEntry"

\* The file after the append: what it held, the header line if no entry was
\* read from it, the new row.
Appended ==
    disk'[Path(app)].lines =
        disk[Path(app)].lines
        \o (IF EntriesOf(disk[Path(app)]) = <<>> THEN <<HeaderLine>> ELSE <<>>)
        \o <<Row(Typed(app).date, Typed(app).amount)>>

\* C3 as the spec states it: after a Confirm in Adding mode whose append
\* succeeded the ledger's entries are the old ones followed by the new one,
\* the report is that of the file with the total the old total plus the
\* amount, and the popup is Inactive.
C3_AddReloads ==
    [][AddedStep =>
         /\ EntriesOf(disk'[Path(app)]) = EntriesOf(disk[Path(app)]) \o <<Typed(app)>>
         /\ Built(app', disk').ok
         /\ app'.report = Built(app', disk').report
         /\ app'.report.total =
              Format(DecAdd(SumAmounts(EntriesOf(disk[Path(app)])), Typed(app).amount))
         /\ app'.popup.mode = "None"]_vars

\* C3: after a Confirm in Adding mode whose append succeeded the file holds
\* what it held followed by the new row; if it can be read, its entries are
\* the old ones followed by the new one; if it loads, the report is its view
\* model, with the total the old total plus the amount, and otherwise the
\* report is that of before; the popup is Inactive and empty.
C3_AddAppends ==
    [][AddedStep =>
         /\ Appended
         /\ entries_from_file(disk'[Path(app)]).ok =>
              EntriesOf(disk'[Path(app)]) = EntriesOf(disk[Path(app)]) \o <<Typed(app)>>
         /\ ReloadedOrKept
         /\ Built(app', disk').ok =>
              app'.report.total =
                Format(DecAdd(SumAmounts(EntriesOf(disk[Path(app)])), Typed(app).amount))
         /\ app'.popup = Popup_new
         /\ \A p \in Paths \ {Path(app)} : disk'[p] = disk[p]]_vars

\* An entry added to a ledger that loaded before and loads after: the saved
\* file ends with the row of the amount typed, the report is its view model.
C3_Witness ==
    /\ Waiting
    /\ last = "ok"
    /\ Built(app, disk).ok
    /\ app.report = Built(app, disk).report
    /\ Len(EntriesOf(disk[Path(app)])) >= 2
    /\ EntriesOf(disk[Path(app)])[Len(EntriesOf(disk[Path(app)]))]
         = Entry(DateToText(Date(2026, 1, 1)), Dec(1, 0))

EditedStep == ConfirmEnding({"ok"}) /\ app.popup.mode = "EditEntry"

\* The entry that was selected when the popup was opened.
SelectedAtOpen ==
    get_selected_entry([report |-> opened.report,
                        selected_year |-> opened.selection.selected_year,
                        selected_entry |-> opened.selection.selected_entry])

\* One entry equal to the one selected at the opening is replaced by the
\* entry typed, the others and the order are kept.
OneReplaced ==
    /\ SelectedAtOpen # <<>>
    /\ entries_from_file(disk'[Path(app)]).ok
    /\ \E k \in 1..Len(EntriesOf(disk[Path(app)])) :
         /\ EntriesOf(disk[Path(app)])[k] = SelectedAtOpen[1]
         /\ EntriesOf(disk'[Path(app)]) =
              [EntriesOf(disk[Path(app)]) EXCEPT ![k] = Typed(app)]

\* C4 as the spec states it: after a Confirm in Editing mode whose rewrite
\* succeeded one entry equal to the one selected at the opening is replaced,
\* the others and the order are kept, the report is that of the file and
\* the popup is Inactive.
C4_EditReloads ==
    [][EditedStep =>
         /\ OneReplaced
         /\ Built(app', disk').ok
         /\ app'.report = Built(app', disk').report
         /\ app'.popup.mode = "None"]_vars

\* C4: after a Confirm in Editing mode whose rewrite succeeded one entry
\* equal to the one selected at the opening is replaced by the entry typed,
\* the number of entries, the others and the order are kept; the report is
\* the view model of the file if it loads and that of before if not; the
\* popup is Inactive and empty.
C4_EditReplacesOne ==
    [][EditedStep =>
         /\ OneReplaced
         /\ ReloadedOrKept
         /\ app'.popup = Popup_new
         /\ \A p \in Paths \ {Path(app)} : disk'[p] = disk[p]]_vars

\* The second row of the three of b.csv edited from 1000 to 10001: the rows
\* around it as before, the report that of the file.
C4_Witness ==
    /\ Waiting
    /\ last = "ok"
    /\ keys = 1
    /\ app.report = Built(app, disk).report
    /\ Len(EntriesOf(disk["b.csv"])) = 3
    /\ EntriesOf(disk["b.csv"])[1] = Entry(DateToText(Date(2025, 6, 15)), Dec(500, 0))
    /\ EntriesOf(disk["b.csv"])[2] = Entry(DateToText(Date(2024, 12, 31)), Dec(10001, 0))
    /\ EntriesOf(disk["b.csv"])[3] = Entry(DateToText(Date(2025, 1, 10)), Dec(125, 2))

\* The places of the entries equal to the selected one, in the file.
Duplicates ==
    {k \in 1..Len(EntriesOf(disk[Path(app)])) :
        /\ get_selected_entry(app) # <<>>
        /\ EntriesOf(disk[Path(app)])[k] = get_selected_entry(app)[1]}

\* C5: a Confirm in Editing mode whose rewrite succeeded replaces the first
\* entry of the file that equals the selected one, whichever of the equal rows
\* the cursor is on, and keeps the later ones.
C5_FirstDuplicateEdited ==
    [][EditedStep =>
         /\ Duplicates # {}
         /\ \A k \in Duplicates :
              EntriesOf(disk'[Path(app)])[k] =
                IF \A j \in Duplicates : k <= j THEN Typed(app)
                ELSE EntriesOf(disk[Path(app)])[k]]_vars

\* The cursor on the second of two equal rows, the amount edited from 5 to
\* 51: the first row of the file holds 51, the second still 5.
C5_Witness ==
    /\ last = "ok"
    /\ app.selected_entry = 1
    /\ Len(EntriesOf(disk["a.csv"])) = 3
    /\ EntriesOf(disk["a.csv"])[1] = Entry(DateToText(Date(2024, 1, 15)), Dec(51, 0))
    /\ EntriesOf(disk["a.csv"])[2] = Entry(DateToText(Date(2024, 1, 15)), Dec(5, 0))

\* C6: a Confirm with a date buffer that is no calendar date, or an amount
\* buffer that is no decimal, sets the message of the field (of the date when
\* both fail) and changes nothing else of the App, leaves the files as they
\* are, and the loop waits for the next event.
C6_InvalidInputKept ==
    [][/\ InPopup /\ last' # "none"
       /\ ~ParseDate(app.popup.date_input).ok \/ ~ParseDecimal(app.popup.amount_input).ok
       /\ PopupEnter
       => /\ app' = [app EXCEPT !.popup.error_message =
                       IF ~ParseDate(app.popup.date_input).ok
                       THEN "Invalid date format. Use YYYY-MM-DD"
                       ELSE "Invalid amount format. Use decimal number"]
          /\ disk' = disk
          /\ run' = "running"]_vars

\* A date buffer that is no date was confirmed: the popup is open with the
\* message of the date field.
C6_Witness ==
    /\ Waiting
    /\ last = "date_err"
    /\ app.popup.mode # "None"
    /\ ~ParseDate(app.popup.date_input).ok
    /\ app.popup.error_message = "Invalid date format. Use YYYY-MM-DD"

\* C7: a Confirm whose append or rewrite fails sets the save-failure message
\* and changes nothing else of the App: the popup stays open in its mode
\* with its buffers, the report and the three cursors are those of before;
\* the loop waits for the next event.
C7_SaveFailureKept ==
    [][ConfirmEnding({"read_err", "open_err", "write_err"}) =>
         /\ app' = [app EXCEPT !.popup.error_message = "Failed to save"]
         /\ app'.popup.mode # "None"
         /\ run' = "running"]_vars

\* A rewrite failed after the file was truncated: the popup is open with the
\* save-failure message, the report still shows the entries.
C7_Witness ==
    /\ Waiting
    /\ last = "write_err"
    /\ app.popup.mode = "EditEntry"
    /\ app.popup.error_message = "Failed to save"
    /\ disk[Path(app)].lines = <<>>
    /\ app.report.year_reports # <<>>

LastYear(self) == Len(self.report.year_reports) - 1

\* C9 as the spec states it: at start-up and after a move of the ledger
\* cursor to a ledger that loads with entries, the year cursor is on the
\* last year and the entry cursor on the last row of that year.
C9_LastRow ==
    [][(Start \/ LedgerMove) /\ run' = "running" /\ Built(app', disk').ok =>
         /\ app'.selected_year = LastYear(app')
         /\ app'.selected_entry = entry_count(app') - 1]_vars

\* C9: at start-up and after a move of the ledger cursor to a ledger that
\* loads with entries, the year cursor is on the last year and the entry
\* cursor on the first row of that year.
C9_LastYearFirstRow ==
    [][(Start \/ LedgerMove) /\ run' = "running" /\ Built(app', disk').ok =>
         /\ app'.report = Built(app', disk').report
         /\ app'.selected_year = LastYear(app')
         /\ app'.selected_entry = 0]_vars

\* The ledger cursor on b.csv, loaded: its last year has two rows, the entry
\* cursor is on the first.
C9_Witness ==
    /\ Waiting
    /\ app.focus = "FileSelection"
    /\ app.selected_file = 1
    /\ app.report.title = "b.csv"
    /\ app.selected_year = 1
    /\ entry_count(app) = 2
    /\ app.selected_entry = 0

\* C10 as the spec states it: after a move of the year cursor the entry
\* cursor is on the last row of the year selected.
C10_LastRow ==
    [][YearMove /\ run' = "running" => app'.selected_entry = entry_count(app') - 1]_vars

\* C10: after a move of the year cursor the entry cursor is on the first row
\* of the year selected.
C10_FirstRow ==
    [][YearMove /\ run' = "running" => app'.selected_entry = 0]_vars

\* The year cursor moved off the last year to a year of two rows, the entry
\* cursor is on the first.
C10_Witness ==
    /\ Waiting
    /\ app.focus = "Years"
    /\ app.selected_year = 0
    /\ Len(app.report.year_reports) = 2
    /\ entry_count(app) = 2
    /\ app.selected_entry = 0

\* The cursor of the focused panel and the length of the list it runs over.
ActiveCursor(self) ==
    CASE self.focus = "FileSelection" -> self.selected_file
      [] self.focus = "Years" -> self.selected_year
      [] self.focus = "YearDetails" -> self.selected_entry

ActiveLen(self) ==
    CASE self.focus = "FileSelection" -> Len(self.files)
      [] self.focus = "Years" -> Len(self.report.year_reports)
      [] self.focus = "YearDetails" -> entry_count(self)

\* C11: wherever the loop waits with the focus off the entries panel, so
\* after every move of the ledger cursor or of the year cursor, the entry
\* cursor is 0, the first row of the displayed year, a Confirm since the last
\* change of focus or not.
C11_EntryZeroOffPanel == Waiting /\ app.focus # "YearDetails" => app.selected_entry = 0

\* An entry was edited with the focus on the ledger list: the year shown has
\* two rows, the entry cursor is on the first.
C11_Witness ==
    /\ Waiting
    /\ app.focus = "FileSelection"
    /\ last = "ok"
    /\ entry_count(app) = 2
    /\ app.selected_entry = 0

\* C12 as the spec states it: in navigation mode next() takes the active
\* cursor i to (i+1) mod n and previous() to (i-1+n) mod n, n the length of
\* the list of the focused panel; with n = 0 both change nothing and the
\* loop goes on.
C12_Modular ==
    [][Navigating =>
         /\ KeyDown =>
              IF ActiveLen(app) = 0 THEN app' = app /\ run' = "running"
              ELSE ActiveCursor(app') = (ActiveCursor(app) + 1) % ActiveLen(app)
         /\ KeyUp =>
              IF ActiveLen(app) = 0 THEN app' = app /\ run' = "running"
              ELSE ActiveCursor(app') =
                     (ActiveCursor(app) - 1 + ActiveLen(app)) % ActiveLen(app)]_vars

\* C13 as the spec states it: from every navigation state next() then
\* previous() brings the active cursor back when the focused list has more
\* than one item, and when it has one item next() and previous() each leave
\* the state as it is.
C13_RoundTrip ==
    Navigating =>
      \A checks \in BOOLEAN :
        /\ ActiveLen(app) > 1 =>
             ActiveCursor(previous(next(app, disk, checks).app, disk, checks).app)
               = ActiveCursor(app)
        /\ ActiveLen(app) = 1 =>
             /\ next(app, disk, checks).app = app
             /\ previous(app, disk, checks).app = app

NoEntries(self, dsk) ==
    /\ self.files # <<>>
    /\ entries_from_file(dsk[Path(self)]).ok
    /\ EntriesOf(dsk[Path(self)]) = <<>>

\* C16 as the spec states it: with no ledger, or with a selected ledger of
\* no entries, start-up, the redraws and the navigation go through with no
\* index out of range and no underflow, and the year and entry cursors are 0.
C16_EmptyTolerated ==
    app.files = <<>> \/ NoEntries(app, disk) =>
      /\ run # "panicked"
      /\ app.selected_year = 0
      /\ app.selected_entry = 0

\* C17 as the spec states it: open-add makes the popup Adding with the field
\* focus on the amount, the date buffer today's date, the amount buffer empty
\* and no message.
C17_OpenAddAmount ==
    Navigating =>
      \A today \in Todays :
        open_add_entry_popup(app, today) =
          [app EXCEPT !.popup = [mode |-> "AddEntry", focus |-> "Amount",
                                 date_input |-> DateToText(today),
                                 amount_input |-> <<>>, error_message |-> "None"]]

\* C17: open-add makes the popup Adding with the field focus on the date,
\* the date buffer today's date, the amount buffer empty and no message,
\* and changes nothing else.
C17_OpenAddDate ==
    Navigating =>
      \A today \in Todays :
        open_add_entry_popup(app, today) =
          [app EXCEPT !.popup = [mode |-> "AddEntry", focus |-> "Date",
                                 date_input |-> DateToText(today),
                                 amount_input |-> <<>>, error_message |-> "None"]]

\* A popup was typed into before; the Add popup now open holds today's date,
\* no amount and no message, the field focus on the date.
C17_Witness ==
    /\ Waiting
    /\ keys >= 1
    /\ last = "none"
    /\ app.popup = [mode |-> "AddEntry", focus |-> "Date",
                    date_input |-> DateToText(Date(2026, 1, 1)),
                    amount_input |-> <<>>, error_message |-> "None"]

\* C18: the first character or backspace after open-add edits the date
\* buffer: a backspace takes its last character, a character is appended and
\* cut off again by the limit of 10; the amount buffer stays empty.
C18_FirstKeyEditsDate ==
    Navigating =>
      \A today \in Todays, key \in PopupKeys :
        /\ handle_popup_input(open_add_entry_popup(app, today), key).app.popup.amount_input
             = <<>>
        /\ handle_popup_input(open_add_entry_popup(app, today), key).app.popup.date_input
             = IF key[1] = "Backspace" THEN Take(DateToText(today), 9)
               ELSE DateToText(today)

\* One backspace after open-add: the date buffer lost its last character,
\* the amount buffer is empty.
C18_Witness ==
    /\ Waiting
    /\ keys = 1
    /\ app.popup.mode = "AddEntry"
    /\ app.popup.date_input = Take(DateToText(Date(2026, 1, 1)), 9)
    /\ app.popup.amount_input = <<>>

\* An entry is selected: the year cursor is on a year and the entry cursor
\* on one of its entries.
HasSelected(self) ==
    /\ self.selected_year < Len(self.report.year_reports)
    /\ self.selected_entry < Len(self.report.year_reports[self.selected_year + 1].entries)

TheSelected(self) ==
    self.report.year_reports[self.selected_year + 1].entries[self.selected_entry + 1]

\* C19: open-edit with an entry selected makes the popup Editing with the
\* field focus on the date, the date buffer the date of the entry as the file
\* has it, the amount buffer the text of its amount (which reads back as the
\* amount) and no message; with no entry selected it changes nothing.
C19_OpenEdit ==
    Navigating =>
      IF HasSelected(app)
      THEN /\ open_edit_entry_popup(app) =
                [app EXCEPT !.popup = [mode |-> "EditEntry", focus |-> "Date",
                                       date_input |-> TheSelected(app).date,
                                       amount_input |-> DecToText(TheSelected(app).amount),
                                       error_message |-> "None"]]
           /\ ParseDecimal(open_edit_entry_popup(app).popup.amount_input)
                = [ok |-> TRUE, value |-> TheSelected(app).amount]
      ELSE open_edit_entry_popup(app) = app

\* The Edit popup opened on the second row of a year of two: the buffers
\* hold its date and its amount, 1.25.
C19_Witness ==
    /\ Waiting
    /\ keys = 0
    /\ app.popup = [mode |-> "EditEntry", focus |-> "Date",
                    date_input |-> DateToText(Date(2025, 1, 10)),
                    amount_input |-> <<"1", ".", "2", "5">>,
                    error_message |-> "None"]

\* C20 as the spec states it: a character or a backspace with the field
\* focus on the date is handled, the date buffer holds at most 10 characters
\* after it, and a character typed into a buffer of 10 leaves it as it is.
C20_DateBounded ==
    [][InPopup /\ app.popup.focus = "Date" /\ keys' = keys + 1 /\ PopupInput =>
         /\ run' = "running"
         /\ Len(app'.popup.date_input) <= 10
         /\ Len(app.popup.date_input) = 10 =>
              app'.popup.date_input \in
                {app.popup.date_input, Take(app.popup.date_input, 9)}]_vars

\* C21: with the field focus on the amount, a typed character is appended
\* to the amount buffer when it is an ASCII digit, '.', or '-' typed into an
\* empty buffer, and leaves the buffer as it is otherwise; the amount buffer
\* always holds digits, '.' and '-' only, with '-' nowhere but in front.
C21_AmountCharset ==
    /\ \A i \in 1..Len(app.popup.amount_input) :
         /\ IsDigit(app.popup.amount_input[i]) \/ app.popup.amount_input[i] \in {".", "-"}
         /\ app.popup.amount_input[i] = "-" => i = 1
    /\ InPopup /\ app.popup.focus = "Amount" =>
         \A c \in KeyChars :
           handle_popup_input(app, <<"Char", c>>).app.popup.amount_input =
             IF (IsDigit(c) \/ c = ".") \/ (c = "-" /\ app.popup.amount_input = <<>>)
             THEN Append(app.popup.amount_input, c)
             ELSE app.popup.amount_input

\* A minus sign was typed into the empty amount of the Add popup.
C21_Witness ==
    /\ Waiting
    /\ app.popup.mode = "AddEntry"
    /\ app.popup.focus = "Amount"
    /\ keys = 1
    /\ app.popup.amount_input = <<"-">>

\* C22: when the popup shows a message, a character key or a backspace
\* handled by the popup leaves no message and the popup in the mode it had.
C22_KeyClearsError ==
    InPopup /\ app.popup.error_message # "None" =>
      \A key \in PopupKeys :
        /\ handle_popup_input(app, key).app.popup.error_message = "None"
        /\ handle_popup_input(app, key).app.popup.mode = app.popup.mode

\* The save of this popup failed and left its message; a key typed after
\* it cleared the message, the popup is still open.
C22_Witness ==
    /\ Waiting
    /\ app.popup.mode # "None"
    /\ opened.saves = 0
    /\ saves = 1
    /\ keys = 1
    /\ app.popup.error_message = "None"

\* The sum of the amounts as a number: every amount brought to the scale s,
\* the mantissas added.
RECURSIVE ScaledSum(_, _)
ScaledSum(es, s) ==
    IF es = <<>> THEN 0
    ELSE Head(es).amount.m * Pow10(s - Head(es).amount.s) + ScaledSum(Tail(es), s)

RECURSIVE MaxScale(_)
MaxScale(es) == IF es = <<>> THEN 0 ELSE Max(Head(es).amount.s, MaxScale(Tail(es)))

ArithmeticSum(es) == [m |-> ScaledSum(es, MaxScale(es)), s |-> MaxScale(es)]

\* That sum as a Decimal value.
ArithmeticValue(es) == Norm(ScaledSum(es, MaxScale(es)), MaxScale(es))

\* The entries a report holds, year after year.
RECURSIVE HeldEntries(_)
HeldEntries(years) ==
    IF years = <<>> THEN <<>> ELSE Head(years).entries \o HeldEntries(Tail(years))

TotalIsSum(built, entries) ==
    built.ok => built.report.total = Format(ArithmeticSum(entries))

\* C23: the total of a report built from a ledger is the formatted sum of
\* all the amounts of the ledger, and the total of the report on screen is
\* the formatted sum of the amounts of all its years together.
C23_TotalIsSum ==
    /\ Navigating => TotalIsSum(Built(app, disk), EntriesOf(disk[Path(app)]))
    /\ app.report # ReportViewModel_default =>
         app.report.total = Format(ArithmeticSum(HeldEntries(app.report.year_reports)))

\* The ledger 2025-06-15;500, 2024-12-31;1000, 2025-01-10;1.25 is shown:
\* two years, the later year first in the file, the total 1 501.25.
C23_Witness ==
    /\ Waiting
    /\ Built(app, disk).ok
    /\ app.report = Built(app, disk).report
    /\ Len(app.report.year_reports) = 2
    /\ ParseDate(EntriesOf(disk[Path(app)])[1].date).y = 2025
    /\ app.report.total = <<"1", " ", "5", "0", "1", ".", "2", "5">>

\* The number a formatted amount shows.
Displayed(text) == ParseDecimal(SelectSeq(text, LAMBDA c : c # " ")).value

RECURSIVE SumDisplayed(_)
SumDisplayed(years) ==
    IF years = <<>> THEN DecZero
    ELSE DecAdd(Displayed(Head(years).subtotal_amount), SumDisplayed(Tail(years)))

\* C24 as the spec states it: in a report of at least one year the
\* subtotals shown for the years add up to the total shown.
C24_SubtotalsSumToTotal ==
    app.report.year_reports # <<>> =>
      SumDisplayed(app.report.year_reports) = Displayed(app.report.total)

\* The calendar year a year title stands for.
YearNumber(title) ==
    IF title # <<>> /\ Head(title) = "-" THEN -TextToNat(Tail(title)) ELSE TextToNat(title)

\* C25 as the spec states it: the years of the report are in strictly
\* ascending order of the calendar year, so that none comes twice.
C25_YearsAscending ==
    \A i, j \in 1..Len(app.report.year_reports) :
      i < j => YearNumber(app.report.year_reports[i].title)
                 < YearNumber(app.report.year_reports[j].title)

\* The dates of the rows of a year of a report.
RowDates(year) == [i \in 1..Len(year.lines) |-> year.lines[i][1]]

\* The dates of the entries of a ledger that fall into the year of the title.
DatesOfYear(entries, title) ==
    LET of_year == SelectSeq(entries, LAMBDA e : YearText(ParseDate(e.date).y) = title)
    IN  [i \in 1..Len(of_year) |-> of_year[i].date]

RowsInFileOrder(built, entries) ==
    built.ok =>
      \A k \in 1..Len(built.report.year_reports) :
        RowDates(built.report.year_reports[k]) =
          DatesOfYear(entries, built.report.year_reports[k].title)

\* C26 as the spec states it: the rows of every year of the report are in
\* non-decreasing order of their dates.
C26_RowsByDate ==
    \A k \in 1..Len(app.report.year_reports) :
      \A i, j \in 1..Len(app.report.year_reports[k].lines) :
        i < j => ~DateBefore(ParseDate(app.report.year_reports[k].lines[j][1]),
                             ParseDate(app.report.year_reports[k].lines[i][1]))

\* C26: the rows of every year of a report are the entries of that year in
\* the order of the ledger file, whatever their dates.
C26_RowsInFileOrder ==
    Navigating => RowsInFileOrder(Built(app, disk), EntriesOf(disk[Path(app)]))

\* The ledger 2025-06-15, 2024-12-31, 2025-01-10 is shown: the year 2025
\* has the row of June before the row of January.
C26_Witness ==
    /\ Waiting
    /\ Built(app, disk).ok
    /\ app.report = Built(app, disk).report
    /\ Len(app.report.year_reports) = 2
    /\ RowDates(app.report.year_reports[2]) =
         <<DateToText(Date(2025, 6, 15)), DateToText(Date(2025, 1, 10))>>

EntriesInFileOrder(built, entries) ==
    built.ok =>
      \A k \in 1..Len(built.report.year_reports) :
        built.report.year_reports[k].entries =
          SelectSeq(entries,
                    LAMBDA e : YearText(ParseDate(e.date).y) = built.report.year_reports[k].title)

C28_FailedLoadHarmless ==
    [][app'.files # <<>> /\ Reloading /\ ~Built(app', disk').ok =>
         /\ app'.report = app.report
         /\ run' = "running"]_vars

\* The file a.csv after an append of the row to it that met no I/O error.
AfterAppend(file, date, amount) ==
    File(file.lines
         \o (IF file.lines = <<>> THEN <<HeaderLine>> ELSE <<>>)
         \o <<Row(DateToText(date), amount)>>)

\* C29 as the spec states it: an append by the TUI or by new-entry that
\* meets no I/O error leaves the file with what it held, then the header
\* line if and only if the file was empty or missing, then the new row;
\* it succeeds, and the file then reads back as the entries of before
\* followed by the new entry.
C29_HeaderIffEmpty ==
    run = "cli" =>
      \A date \in CliDates, amount \in CliAmounts :
        /\ add_entry_to_file(disk["a.csv"], date, amount, "ok").file
             = AfterAppend(disk["a.csv"], date, amount)
        /\ add_entry(disk["a.csv"], date, amount, "ok").file
             = AfterAppend(disk["a.csv"], date, amount)
        /\ add_entry(disk["a.csv"], date, amount, "ok").ok
        /\ entries_from_file(AfterAppend(disk["a.csv"], date, amount)).ok
        /\ EntriesOf(AfterAppend(disk["a.csv"], date, amount))
             = EntriesOf(disk["a.csv"]) \o <<Entry(DateToText(date), amount)>>

\* C30 as the spec states it: add_entry that returns Ok has appended the
\* one entry to the entries of the file and returns the sum of the entries
\* of before and that sum plus the amount; add_entry that returns an error
\* has left the file as it was.
C30_AddEntryTotals ==
    run = "cli" =>
      \A date \in CliDates, amount \in CliAmounts, io \in IO :
        LET result == add_entry(disk["a.csv"], date, amount, io)
        IN  /\ result.ok =>
                 /\ EntriesOf(result.file)
                      = EntriesOf(disk["a.csv"]) \o <<Entry(DateToText(date), amount)>>
                 /\ result.total_before = ArithmeticValue(EntriesOf(disk["a.csv"]))
                 /\ result.total_after = DecAdd(result.total_before, amount)
            /\ ~result.ok => result.file = disk["a.csv"]

\* C31 as the spec states it: a sort that succeeds leaves the file with the
\* one header line and the entries it held, in non-decreasing order of their
\* dates, those of one date in the order they had; the entries of a file
\* already in that order stay as they are.
C31_SortedByDate ==
    run = "cli" /\ sort_command(disk["a.csv"], "ok").ok =>
      sort_command(disk["a.csv"], "ok").file
        = File(<<HeaderLine>> \o EntryLines(SortByDate(EntriesOf(disk["a.csv"]))))

\* C32: whenever the popup mode is None the date buffer and the amount
\* buffer are empty and there is no message.
C32_InactiveIsBlank ==
    app.popup.mode = "None" =>
      /\ app.popup.date_input = <<>>
      /\ app.popup.amount_input = <<>>
      /\ app.popup.error_message = "None"

\* A popup that was typed into and whose save was tried is closed again:
\* nothing of it is left.
C32_Witness ==
    /\ Waiting
    /\ app.popup = Popup_new
    /\ keys = 1
    /\ saves = 1

\* C33: in an open popup cycle_popup_focus moves the field focus from the
\* date to the amount or back and changes nothing else of the App; twice
\* in a row it gives the App back as it was.
C33_FieldToggle ==
    InPopup =>
      /\ cycle_popup_focus(app).popup.focus # app.popup.focus
      /\ cycle_popup_focus(app).popup.focus \in {"Date", "Amount"}
      /\ cycle_popup_focus(app) =
           [app EXCEPT !.popup.focus = cycle_popup_focus(app).popup.focus]
      /\ cycle_popup_focus(cycle_popup_focus(app)) = app

\* The field focus was moved to the amount in a popup that shows a message.
C33_Witness ==
    /\ Waiting
    /\ app.popup.mode # "None"
    /\ app.popup.focus = "Amount"
    /\ app.popup.error_message # "None"

\* A buffer without its last character, an empty buffer as it is.
WithoutLast(buffer) == IF buffer = <<>> THEN <<>> ELSE SubSeq(buffer, 1, Len(buffer) - 1)

C35_RoutedByMode ==
    [][/\ InPopup /\ last' \notin {"ok", "nomatch"} =>
            /\ Selection(app') = Selection(app)
            /\ app'.report = app.report
            /\ app'.files = app.files
       /\ Navigating /\ app'.popup # app.popup => KeyAdd \/ KeyEdit]_vars

\* A key was typed into a popup opened on the second row of a year: the
\* report, the focus and the cursors are those of the opening.
C35_Witness ==
    /\ Waiting
    /\ app.popup.mode # "None"
    /\ keys = 1
    /\ app.focus = "YearDetails"
    /\ app.selected_entry = 1
    /\ opened.selection = Selection(app)
    /\ opened.report = app.report

\* C36 as the spec states it: the loop, once it waits for events, ends by
\* the quit key pressed while no popup is open and by nothing else; the
\* cancel key of the popup leaves it running.
C36_EndsOnlyOnQuit ==
    [][/\ run = "running" /\ run' # "running" => Navigating /\ run' = "quit"
       /\ InPopup /\ app'.popup.mode = "None" /\ last' = "none" => run' = "running"]_vars

\* C37 as the spec states it: after a Confirm whose save succeeded the
\* ledger cursor and the focus are those of before, the year cursor is on
\* the last year of the report and the entry cursor is the one of the
\* opening of the popup.
C37_LastYearAfterSave ==
    [][ConfirmEnding({"ok", "nomatch"}) /\ run' = "running" =>
         /\ app'.selected_file = app.selected_file
         /\ app'.focus = app.focus
         /\ app'.selected_year = LastYear(app')
         /\ app'.selected_entry = opened.selection.selected_entry]_vars

\* C37: after a Confirm whose save succeeded the ledger cursor and the
\* focus are those of before, the entry cursor is the one of the opening
\* of the popup, neither reset nor clamped, and the year cursor is on the
\* last year of the ledger if it loads with entries and where it was if it
\* does not load.
C37_CursorsAfterSave ==
    [][ConfirmEnding({"ok", "nomatch"}) =>
         /\ app'.selected_file = app.selected_file
         /\ app'.focus = app.focus
         /\ app'.selected_entry = app.selected_entry
         /\ app'.selected_entry = opened.selection.selected_entry
         /\ ~Built(app', disk').ok => app'.selected_year = app.selected_year
         /\ Built(app', disk').ok /\ Built(app', disk').report.year_reports # <<>> =>
              app'.selected_year = Len(Built(app', disk').report.year_reports) - 1]_vars

\* The second row of the first year was edited: the year cursor went to
\* the last year, which has one row, the entry cursor stayed on 1.
C37_Witness ==
    /\ Waiting
    /\ last = "ok"
    /\ app.focus = "YearDetails"
    /\ Len(app.report.year_reports) = 2
    /\ app.selected_year = 1
    /\ entry_count(app) = 1
    /\ app.selected_entry = 1

\* C38: a Confirm validates the date before the amount: the message after
\* it is the one of the date exactly when the date buffer is no date,
\* whatever the amount buffer holds, and the one of the amount exactly when
\* the date buffer is a date and the amount buffer is no decimal; a message
\* left by an earlier Confirm does not outlive the failure it reported.
\* (Of the steps taken with the popup open only a Confirm leaves last other
\* than "none".)
C38_DateBeforeAmount ==
    [][InPopup /\ last' # "none" =>
         LET date_ok == ParseDate(app.popup.date_input).ok
         IN  /\ app'.popup.error_message = "Invalid date format. Use YYYY-MM-DD"
                  <=> ~date_ok
             /\ app'.popup.error_message = "Invalid amount format. Use decimal number"
                  <=> date_ok /\ ~ParseDecimal(app.popup.amount_input).ok]_vars

\* Neither buffer parses and a Confirm was refused: the message is the one
\* of the date.
C38_Witness ==
    /\ Waiting
    /\ last = "date_err"
    /\ InPopup
    /\ ~ParseDate(app.popup.date_input).ok
    /\ ~ParseDecimal(app.popup.amount_input).ok
    /\ app.popup.error_message = "Invalid date format. Use YYYY-MM-DD"

\* C39: a Confirm that ends with the save-failure message leaves the
\* entries of the ledger file as they were before it: a failed append or
\* rewrite loses no entry and duplicates none.
C39_FailedSaveKeepsEntries ==
    [][ConfirmEnding({"read_err", "open_err", "write_err"}) =>
         EntriesOf(disk'[Path(app)]) = EntriesOf(disk[Path(app)])]_vars

\* The Editing popup as Open-Edit filled it, no save attempted since.
FreshEdit ==
    /\ InPopup
    /\ app.popup = open_edit_entry_popup([app EXCEPT !.popup = Popup_new]).popup
    /\ opened.saves = saves

\* The same entries in the same order: the dates name the same days, the
\* amounts are equal as numbers.
SameLedger(before, after) ==
    /\ Len(after) = Len(before)
    /\ \A i \in 1..Len(before) :
         /\ ParseDate(after[i].date) = ParseDate(before[i].date)
         /\ after[i].amount = before[i].amount

=============================================================================
